---------------------------- MODULE Spec2Model ----------------------------
(***************************************************************************)
(* Model of sandbox_registrator.py: the top-level batch script that, for   *)
(* every input row, creates and starts a Dolphin browser profile, attaches *)
(* selenium to it, registers a Metamask wallet and a Sandbox account,      *)
(* appends a result record, then stops and deletes the profile.            *)
(*                                                                         *)
(* Text is modelled as a sequence of one-character strings, so that        *)
(* rstrip and split are computed the way Python computes them.  Python's   *)
(* True / False / None are the strings "True" / "False" / "None"; an       *)
(* exception that leaves a method is the outcome "raise".                  *)
(***************************************************************************)
EXTENDS Naturals, Sequences, FiniteSets

(* Largest number of lines in each of the three input files. *)
MaxRows == 2

(* Value at which the observed count of failed form attempts saturates. *)
MaxAttempts == 2

None == "None"

-----------------------------------------------------------------------------
(* Text helpers *)

Whitespace == {" "}

(* str.rstrip(): drop trailing whitespace. *)
RECURSIVE RStrip(_)
RStrip(s) ==
    IF s = <<>> THEN <<>>
    ELSE IF s[Len(s)] \in Whitespace THEN RStrip(SubSeq(s, 1, Len(s) - 1))
    ELSE s

(* TRUE iff sep occurs in s at position k. *)
MatchAt(s, sep, k) ==
    /\ k + Len(sep) - 1 <= Len(s)
    /\ SubSeq(s, k, k + Len(sep) - 1) = sep

(* str.split(sep): the pieces of s between the non-overlapping occurrences *)
(* of sep, scanned left to right; always at least one piece.               *)
RECURSIVE SplitFrom(_, _, _, _)
SplitFrom(s, sep, cur, k) ==
    IF k > Len(s) THEN << cur >>
    ELSE IF MatchAt(s, sep, k)
         THEN << cur >> \o SplitFrom(s, sep, <<>>, k + Len(sep))
         ELSE SplitFrom(s, sep, Append(cur, s[k]), k + 1)

Split(s, sep) == SplitFrom(s, sep, <<>>, 1)

(* FileManager.read_txt_file: one rstrip-ped entry per line of the file. *)
read_txt_file(rawLines) == [k \in 1..Len(rawLines) |-> RStrip(rawLines[k])]

(* All sequences over S of length 0..n. *)
SeqsUpTo(S, n) == UNION {[1..k -> S] : k \in 0..n}

-----------------------------------------------------------------------------
(* Input files *)

GoodProxy == <<"s", ":", "/", "/", "l", ":", "p", "@", "h", ":", "8">>
BadProxy  == <<"h", ":", "8">>

ProxyLines     == {GoodProxy, BadProxy}
UserAgentLines == {<<"M">>}
EmailLines     == {<<"e">>, <<"e", " ">>, <<>>}

(* DolphinProfile.__parse_proxy: an index out of range raises IndexError. *)
parse_proxy(proxy) ==
    LET at == Split(proxy, <<"@">>)
    IN  IF Len(at) < 2 THEN [ok |-> FALSE]
        ELSE LET hp == Split(at[2], <<":">>)
                 sl == Split(at[1], <<"/", "/">>)
             IN  IF Len(hp) < 2 \/ Len(sl) < 2 THEN [ok |-> FALSE]
                 ELSE LET lp == Split(sl[2], <<":">>)
                      IN  IF Len(lp) < 2 THEN [ok |-> FALSE]
                          ELSE [ok |-> TRUE,
                                proxy_host |-> hp[1], proxy_port |-> hp[2],
                                proxy_login |-> lp[1], proxy_password |-> lp[2]]


-----------------------------------------------------------------------------
(* Python truth values *)

(* `not v` for the values the script tests. *)
Not(v) == v \in {"False", None}

-----------------------------------------------------------------------------
(* Provider HTTP API.  A response is one of:                               *)
(*   "neterr"  requests raises (connection refused, timeout)               *)
(*   "text"    the body is not JSON                                        *)
(*   "nokey"   a JSON object without the key the method reads first        *)
(*   "fail"    'success' present and falsy                                 *)
(*   "partial" 'success' truthy, the further field the method reads absent *)
(*   "ok"      everything the method reads is present, 'success' truthy    *)

AuthResponses   == {"neterr", "text", "nokey", "ok"}
CreateResponses == {"neterr", "text", "nokey", "fail", "partial", "ok"}
StartResponses  == {"neterr", "text", "nokey", "fail", "partial", "ok"}
StopResponses   == {"neterr", "text", "nokey", "fail", "ok"}
DeleteResponses == {"neterr", "text", "nokey", "fail", "ok"}

Tokens     == {"token"}
ProfileIds == {"bp"}
Ports      == {"9222"}
Endpoints  == {"ws"}

(* authorise_account taking any JSON answer for a login. *)
authorise_account_TokenOptional(resp, tok) ==
    CASE resp \in {"neterr", "text"} -> [res |-> "raise", token |-> None]
      [] resp = "ok"                 -> [res |-> "True",  token |-> tok]
      [] OTHER                       -> [res |-> "True",  token |-> None]

(* DolphinAccount.authorise_account: post and json.loads are unguarded. *)
authorise_account(resp, tok) ==
    CASE resp \in {"neterr", "text"} -> [res |-> "raise", token |-> None]
      [] resp = "ok"                 -> [res |-> "True",  token |-> tok]
      [] OTHER                       -> [res |-> "False", token |-> None]

(* DolphinProfile.create_new_profile: the whole body is under try/except. *)
create_new_profile(resp, id) ==
    IF resp = "ok" THEN [res |-> "True",  browser_profile_id |-> id]
                   ELSE [res |-> "False", browser_profile_id |-> None]

(* start_profile reporting True whatever 'success' says. *)
start_profile_FailIgnored(resp, port, endpoint) ==
    CASE resp = "ok"   -> [res |-> "True",  window_port |-> port, window_endpoint |-> endpoint]
      [] resp = "fail" -> [res |-> "True",  window_port |-> None, window_endpoint |-> None]
      [] OTHER         -> [res |-> "raise", window_port |-> None, window_endpoint |-> None]

(* DolphinProfile.start_profile: nothing is guarded. *)
start_profile(resp, port, endpoint) ==
    CASE resp = "ok"   -> [res |-> "True",  window_port |-> port, window_endpoint |-> endpoint]
      [] resp = "fail" -> [res |-> "False", window_port |-> None, window_endpoint |-> None]
      [] OTHER         -> [res |-> "raise", window_port |-> None, window_endpoint |-> None]

(* DolphinProfile.stop_profile: nothing is guarded. *)
stop_profile(resp) ==
    CASE resp = "ok"   -> "True"
      [] resp = "fail" -> "False"
      [] OTHER         -> "raise"

(* DolphinProfile.delete_profile: requests.delete is outside the try; a   *)
(* falsy 'success' falls off the end of the method and yields None.       *)
delete_profile(resp) ==
    CASE resp = "neterr"           -> "raise"
      [] resp \in {"text", "nokey"} -> "False"
      [] resp = "fail"             -> None
      [] OTHER                     -> "True"

-----------------------------------------------------------------------------
(* Wallet registration *)

SeedOpen  == "<div class=reveal-seed-phrase__secret-words>"
SeedClose == "</div>"

(* innerHTML of the reveal page, as a sequence of tokens. *)
PageHtmls ==
    { <<"x", SeedOpen, "w", SeedClose, "y">>,
      <<"x", SeedOpen, SeedClose, "y">>,
      <<"x", "y">> }

PublicKeys == {"0xA"}

(* Where the chain of UI steps of register_metamask breaks, if it does. *)
WalletFailures == {"none", "before_seed", "after_seed"}

(* MetamaskAccount.register_metamask: every exception becomes False. *)
register_metamask(failAt, html, clip) ==
    LET parts == Split(html, << SeedOpen >>)
    IN  IF failAt = "before_seed" \/ Len(parts) < 2
        THEN [res |-> "False", seed_phrase |-> None, public_key |-> None]
        ELSE LET seed == Split(parts[2], << SeedClose >>)[1]
             IN  IF failAt = "after_seed"
                 THEN [res |-> "False", seed_phrase |-> seed, public_key |-> None]
                 ELSE [res |-> "True",  seed_phrase |-> seed, public_key |-> clip]

-----------------------------------------------------------------------------
(* Account registration *)

Usernames == {"u1"}
Passwords == {"pw"}


(* Where the steps of register_sandbox_account before the form loop      *)
(* break, if they do; the second attach (init_selenium_driver) is one of  *)
(* them.                                                                  *)
OpenFailures == {"none", "before_attach", "attach", "after_attach"}

(* The form loop giving up after MaxAttempts failed attempts. *)
form_loop_next_Bounded(stepsOk, n) ==
    IF stepsOk THEN "set_password"
    ELSE IF n + 1 >= MaxAttempts THEN "exited" ELSE "form_generate"

(* The form loop, `while True: try ... break / except: continue`: leave   *)
(* the loop when every step of the attempt succeeded, else go round.      *)
form_loop_next(stepsOk, n) ==
    IF stepsOk THEN "set_password" ELSE "form_generate"

(* register_sandbox_account failing when the avatar steps fail. *)
register_sandbox_result_AvatarFatal(avatarOk) ==
    IF avatarOk THEN "True" ELSE "False"

(* What register_sandbox_account returns once the password is saved: the  *)
(* avatar steps are under their own try/except.                           *)
register_sandbox_result(avatarOk) == "True"

-----------------------------------------------------------------------------
(* The batch script *)

(* The length test without the comparison with the emails. *)
LengthsDiffer_ProxyOnly(p, u, e) == Len(p) # Len(u)

(* The length test that precedes the first request. *)
LengthsDiffer(p, u, e) == Len(p) # Len(u) \/ Len(p) # Len(e)

(* The loop test stopping one row early. *)
LoopContinues_OffByOne(idx, n) == idx + 1 < n

(* `while i < len(proxies_list)`. *)
LoopContinues(idx, n) == idx < n

(* The outcome test going to the profile's teardown instead of exiting. *)
exit_if_not_Cleanup(res, next) == IF Not(res) THEN "stop" ELSE next

(* The outcome test without its exit. *)
exit_if_not_Continue(res, next) == next

(* `if not <outcome>: logger.error(...); exit()`, else carry on. *)
exit_if_not(res, next) == IF Not(res) THEN "exited" ELSE next

VARIABLES
    proxies_list, user_agents_list, emails_list,   \* the three input lists
    authorization_token,                           \* DolphinAccount.authorization_token
    authorised,                                    \* outcome of authorise_account
    i,                                             \* index of the current row, from 0
    pc,                                            \* position of the script
    dolphin_profile,                               \* the current DolphinProfile
    driver,                                        \* port the current driver is attached to
    metamask_account,                              \* the current MetamaskAccount
    sandbox_account,                               \* the current SandboxAccount
    profile_created, profile_started,
    metamask_registered, sandbox_registered,
    profile_stopped, profile_deleted,              \* outcomes held by the script
    registered_accounts,                           \* lines of registered_accounts.txt
    log,                                           \* calls made so far, with their outcomes
    attempts,                                      \* failed form attempts of this account
    avatar_updated,                                \* which avatar message was logged
    raisedBy                                       \* method an uncaught exception left

vars == << proxies_list, user_agents_list, emails_list, authorization_token,
           authorised, i, pc, dolphin_profile, driver, metamask_account,
           sandbox_account, profile_created, profile_started,
           metamask_registered, sandbox_registered, profile_stopped,
           profile_deleted, registered_accounts, log, attempts,
           avatar_updated, raisedBy >>

inputs  == << proxies_list, user_agents_list, emails_list >>
objects == << dolphin_profile, driver, metamask_account, sandbox_account >>
flags   == << profile_created, profile_started, metamask_registered,
              sandbox_registered, profile_stopped, profile_deleted >>

(* One entry of the call log. *)
Call(op, resp, res) == [op |-> op, acct |-> i, resp |-> resp, res |-> res]

Min(a, b) == IF a < b THEN a ELSE b

Init ==
    /\ \E raw \in SeqsUpTo(ProxyLines, MaxRows) : proxies_list = read_txt_file(raw)
    /\ \E raw \in SeqsUpTo(UserAgentLines, MaxRows) : user_agents_list = read_txt_file(raw)
    /\ \E raw \in SeqsUpTo(EmailLines, MaxRows) : emails_list = read_txt_file(raw)
    /\ authorization_token = None
    /\ authorised = None
    /\ i = 0
    /\ pc = "check_lengths"
    /\ dolphin_profile = None
    /\ driver = None
    /\ metamask_account = None
    /\ sandbox_account = None
    /\ profile_created = None
    /\ profile_started = None
    /\ metamask_registered = None
    /\ sandbox_registered = None
    /\ profile_stopped = None
    /\ profile_deleted = None
    /\ registered_accounts = <<>>
    /\ log = <<>>
    /\ attempts = 0
    /\ avatar_updated = None
    /\ raisedBy = None

(* Lines 412-414. *)
CheckLengths ==
    /\ pc = "check_lengths"
    /\ pc' = IF LengthsDiffer(proxies_list, user_agents_list, emails_list)
             THEN "exited" ELSE "authorise"
    /\ UNCHANGED << inputs, authorization_token, authorised, i, objects, flags,
                    registered_accounts, log, attempts, avatar_updated, raisedBy >>

(* Lines 416-422. *)
Authorise ==
    /\ pc = "authorise"
    /\ \E resp \in AuthResponses, tok \in Tokens :
         LET o == authorise_account(resp, tok)
         IN  /\ log' = Append(log, Call("auth", resp, o.res))
             /\ authorization_token' = o.token
             /\ IF o.res = "raise"
                THEN /\ pc' = "crashed"
                     /\ raisedBy' = "authorise_account"
                     /\ UNCHANGED authorised
                ELSE /\ authorised' = o.res
                     /\ pc' = exit_if_not(o.res, "loop")
                     /\ UNCHANGED raisedBy
    /\ UNCHANGED << inputs, i, objects, flags, registered_accounts, attempts,
                    avatar_updated >>

(* Line 423. *)
LoopTest ==
    /\ pc = "loop"
    /\ pc' = IF LoopContinues(i, Len(proxies_list)) THEN "new_profile" ELSE "done"
    /\ UNCHANGED << inputs, authorization_token, authorised, i, objects, flags,
                    registered_accounts, log, attempts, avatar_updated, raisedBy >>

(* Lines 424-426: DolphinProfile(user_agent, proxy) parses the proxy. *)
NewProfile ==
    /\ pc = "new_profile"
    /\ LET parsed == parse_proxy(proxies_list[i + 1])
       IN  IF parsed.ok
           THEN /\ dolphin_profile' =
                     [user_agent |-> user_agents_list[i + 1],
                      proxy |-> proxies_list[i + 1],
                      browser_profile_id |-> None,
                      window_port |-> None,
                      window_endpoint |-> None,
                      proxy_host |-> parsed.proxy_host,
                      proxy_port |-> parsed.proxy_port,
                      proxy_login |-> parsed.proxy_login,
                      proxy_password |-> parsed.proxy_password]
                /\ pc' = "create"
                /\ UNCHANGED raisedBy
           ELSE /\ pc' = "crashed"
                /\ raisedBy' = "DolphinProfile"
                /\ UNCHANGED dolphin_profile
    /\ UNCHANGED << inputs, authorization_token, authorised, i, driver,
                    metamask_account, sandbox_account, flags,
                    registered_accounts, log, attempts, avatar_updated >>

(* Lines 428-433. *)
CreateProfile ==
    /\ pc = "create"
    /\ \E resp \in CreateResponses, id \in ProfileIds :
         LET o == create_new_profile(resp, id)
         IN  /\ log' = Append(log, Call("create", resp, o.res))
             /\ dolphin_profile' =
                  [dolphin_profile EXCEPT !.browser_profile_id = o.browser_profile_id]
             /\ profile_created' = o.res
             /\ pc' = exit_if_not(o.res, "start")
    /\ UNCHANGED << inputs, authorization_token, authorised, i, driver,
                    metamask_account, sandbox_account, profile_started,
                    metamask_registered, sandbox_registered, profile_stopped,
                    profile_deleted, registered_accounts, attempts,
                    avatar_updated, raisedBy >>

(* Lines 435-440. *)
StartProfile ==
    /\ pc = "start"
    /\ \E resp \in StartResponses, port \in Ports, endpoint \in Endpoints :
         LET o == start_profile(resp, port, endpoint)
         IN  /\ log' = Append(log, Call("start", resp, o.res))
             /\ dolphin_profile' =
                  [dolphin_profile EXCEPT !.window_port = o.window_port,
                                          !.window_endpoint = o.window_endpoint]
             /\ IF o.res = "raise"
                THEN /\ pc' = "crashed"
                     /\ raisedBy' = "start_profile"
                     /\ UNCHANGED profile_started
                ELSE /\ profile_started' = o.res
                     /\ pc' = exit_if_not(o.res, "init_driver")
                     /\ UNCHANGED raisedBy
    /\ UNCHANGED << inputs, authorization_token, authorised, i, driver,
                    metamask_account, sandbox_account, profile_created,
                    metamask_registered, sandbox_registered, profile_stopped,
                    profile_deleted, registered_accounts, attempts,
                    avatar_updated >>


WalletPassword == "metamask_pass"

(* Lines 442-443: attach to the started browser, then MetamaskAccount(). *)
(* webdriver.Chrome raises when it cannot attach.                        *)
InitDriver ==
    /\ pc = "init_driver"
    /\ \E attached \in BOOLEAN :
         /\ log' = Append(log, Call("attach", dolphin_profile.window_port,
                                    IF attached THEN "ok" ELSE "raise"))
         /\ IF attached
            THEN /\ driver' = dolphin_profile.window_port
                 /\ metamask_account' = [password |-> WalletPassword,
                                         seed_phrase |-> None,
                                         public_key |-> None]
                 /\ pc' = "metamask"
                 /\ UNCHANGED raisedBy
            ELSE /\ pc' = "crashed"
                 /\ raisedBy' = "init_selenium_driver"
                 /\ UNCHANGED << driver, metamask_account >>
    /\ UNCHANGED << inputs, authorization_token, authorised, i, dolphin_profile,
                    sandbox_account, flags, registered_accounts, attempts,
                    avatar_updated >>

(* Lines 444-451: register the wallet, then SandboxAccount(email). *)
RegisterMetamask ==
    /\ pc = "metamask"
    /\ \E failAt \in WalletFailures, html \in PageHtmls, clip \in PublicKeys :
         LET o == register_metamask(failAt, html, clip)
         IN  /\ log' = Append(log, Call("wallet", failAt, o.res))
             /\ metamask_account' =
                  [metamask_account EXCEPT !.seed_phrase = o.seed_phrase,
                                           !.public_key = o.public_key]
             /\ metamask_registered' = o.res
             /\ pc' = exit_if_not(o.res, "sandbox_open")
             /\ sandbox_account' =
                  IF Not(o.res) THEN sandbox_account
                  ELSE [email |-> emails_list[i + 1],
                        username |-> None, password |-> None]
    /\ UNCHANGED << inputs, authorization_token, authorised, i, dolphin_profile,
                    driver, profile_created, profile_started,
                    sandbox_registered, profile_stopped, profile_deleted,
                    registered_accounts, attempts, avatar_updated, raisedBy >>

(* Lines 323-349: open the site, attach again, link the wallet, type the *)
(* email.  Nothing here is guarded.                                      *)
SandboxOpen ==
    /\ pc = "sandbox_open"
    /\ \E failAt \in OpenFailures :
         /\ log' = CASE failAt = "before_attach" ->
                          Append(log, Call("account", failAt, "raise"))
                     [] failAt = "attach" ->
                          log \o << Call("attach", dolphin_profile.window_port, "raise"),
                                    Call("account", failAt, "raise") >>
                     [] failAt = "after_attach" ->
                          log \o << Call("attach", dolphin_profile.window_port, "ok"),
                                    Call("account", failAt, "raise") >>
                     [] OTHER ->
                          Append(log, Call("attach", dolphin_profile.window_port, "ok"))
         /\ IF failAt = "none"
            THEN /\ pc' = "form_generate"
                 /\ UNCHANGED raisedBy
            ELSE /\ pc' = "crashed"
                 /\ raisedBy' = "register_sandbox_account"
    /\ attempts' = 0
    /\ UNCHANGED << inputs, authorization_token, authorised, i, objects, flags,
                    registered_accounts, avatar_updated >>

(* Lines 353-354: a new username and a new password for this attempt. *)
FormGenerate ==
    /\ pc = "form_generate"
    /\ \E u \in Usernames, p \in Passwords :
         sandbox_account' = [sandbox_account EXCEPT !.username = u, !.password = p]
    /\ pc' = "form_submit"
    /\ UNCHANGED << inputs, authorization_token, authorised, i, dolphin_profile,
                    driver, metamask_account, flags, registered_accounts, log,
                    attempts, avatar_updated, raisedBy >>

(* Lines 355-369: submit the form; any exception starts a new attempt. *)
FormSubmit ==
    /\ pc = "form_submit"
    /\ \E stepsOk \in BOOLEAN :
         /\ pc' = form_loop_next(stepsOk, attempts)
         /\ attempts' = IF stepsOk THEN attempts ELSE Min(attempts + 1, MaxAttempts)
    /\ UNCHANGED << inputs, authorization_token, authorised, i, objects, flags,
                    registered_accounts, log, avatar_updated, raisedBy >>

(* Lines 371-375: type the password twice and save it; unguarded. *)
SetPassword ==
    /\ pc = "set_password"
    /\ \E stepsOk \in BOOLEAN :
         IF stepsOk
         THEN /\ pc' = "avatar"
              /\ UNCHANGED << log, raisedBy >>
         ELSE /\ pc' = "crashed"
              /\ raisedBy' = "register_sandbox_account"
              /\ log' = Append(log, Call("account", "set_password", "raise"))
    /\ UNCHANGED << inputs, authorization_token, authorised, i, objects, flags,
                    registered_accounts, attempts, avatar_updated >>

(* Lines 377-386 and 452-457: the avatar steps, the return, and the test *)
(* the script makes of the returned value.                               *)
Avatar ==
    /\ pc = "avatar"
    /\ \E avatarOk \in BOOLEAN :
         LET res == register_sandbox_result(avatarOk)
         IN  /\ avatar_updated' = IF avatarOk THEN "True" ELSE "False"
             /\ log' = Append(log, Call("account", "returned", res))
             /\ sandbox_registered' = res
             /\ pc' = exit_if_not(res, "append")
    /\ attempts' = 0
    /\ UNCHANGED << inputs, authorization_token, authorised, i, objects,
                    profile_created, profile_started, metamask_registered,
                    profile_stopped, profile_deleted, registered_accounts,
                    raisedBy >>

(* Lines 459-463: one colon-joined line; the fields are kept apart here. *)
AppendRecord ==
    /\ pc = "append"
    /\ registered_accounts' = Append(registered_accounts,
         [acct |-> i,
          username |-> sandbox_account.username,
          email |-> sandbox_account.email,
          password |-> sandbox_account.password,
          public_key |-> metamask_account.public_key,
          seed_phrase |-> metamask_account.seed_phrase,
          proxy |-> proxies_list[i + 1],
          user_agent |-> user_agents_list[i + 1]])
    /\ log' = Append(log, Call("record", "file", "ok"))
    /\ pc' = "stop"
    /\ UNCHANGED << inputs, authorization_token, authorised, i, objects, flags,
                    attempts, avatar_updated, raisedBy >>

(* Lines 465-469. *)
StopProfile ==
    /\ pc = "stop"
    /\ \E resp \in StopResponses :
         LET res == stop_profile(resp)
         IN  /\ log' = Append(log, Call("stop", resp, res))
             /\ IF res = "raise"
                THEN /\ pc' = "crashed"
                     /\ raisedBy' = "stop_profile"
                     /\ UNCHANGED profile_stopped
                ELSE /\ profile_stopped' = res
                     /\ pc' = "delete"
                     /\ UNCHANGED raisedBy
    /\ UNCHANGED << inputs, authorization_token, authorised, i, objects,
                    profile_created, profile_started, metamask_registered,
                    sandbox_registered, profile_deleted, registered_accounts,
                    attempts, avatar_updated >>

(* Lines 471-477. *)
DeleteProfile ==
    /\ pc = "delete"
    /\ \E resp \in DeleteResponses :
         LET res == delete_profile(resp)
         IN  /\ log' = Append(log, Call("delete", resp, res))
             /\ IF res = "raise"
                THEN /\ pc' = "crashed"
                     /\ raisedBy' = "delete_profile"
                     /\ UNCHANGED << profile_deleted, i >>
                ELSE /\ profile_deleted' = res
                     /\ i' = i + 1
                     /\ pc' = "loop"
                     /\ UNCHANGED raisedBy
    /\ UNCHANGED << inputs, authorization_token, authorised, objects,
                    profile_created, profile_started, metamask_registered,
                    sandbox_registered, profile_stopped, registered_accounts,
                    attempts, avatar_updated >>

Next ==
    \/ CheckLengths
    \/ Authorise
    \/ LoopTest
    \/ NewProfile
    \/ CreateProfile
    \/ StartProfile
    \/ InitDriver
    \/ RegisterMetamask
    \/ SandboxOpen
    \/ FormGenerate
    \/ FormSubmit
    \/ SetPassword
    \/ Avatar
    \/ AppendRecord
    \/ StopProfile
    \/ DeleteProfile

Spec == Init /\ [][Next]_vars


-----------------------------------------------------------------------------
(* Properties *)

Rows == Len(proxies_list)

ListsAligned == Len(proxies_list) = Len(user_agents_list)
                /\ Len(proxies_list) = Len(emails_list)

(* The calls of the log without their outcomes. *)
OpsOf(l) == [k \in 1..Len(l) |-> << l[k].op, l[k].acct >>]

(* The calls one account takes from creation to deletion. *)
AccountOps(a) ==
    << << "create", a >>, << "start", a >>, << "attach", a >>, << "wallet", a >>,
       << "attach", a >>, << "account", a >>, << "record", a >>,
       << "stop", a >>, << "delete", a >> >>

RECURSIVE BatchOps(_)
BatchOps(n) == IF n = 0 THEN << << "auth", 0 >> >>
               ELSE BatchOps(n - 1) \o AccountOps(n - 1)

IsPrefix(a, b) == Len(a) <= Len(b) /\ SubSeq(b, 1, Len(a)) = a

AllSuccess == \A k \in DOMAIN log : log[k].res \in {"True", "ok"}

CountOf(op, a, res) ==
    Cardinality({k \in DOMAIN log :
                   log[k].op = op /\ log[k].acct = a /\ log[k].res = res})

(* C1: in a run where every call succeeds, the calls made so far are a    *)
(* prefix of: authenticate, then for account 0, 1, ... in turn create,    *)
(* start, attach, wallet, attach, account, record, stop, delete; when the *)
(* loop has ended over N rows, exactly that sequence for N accounts has   *)
(* been made, there are N records, one per account in order, and each     *)
(* profile was created and deleted once.                                  *)
C1_AllSuccessSequential ==
    AllSuccess =>
      /\ log # <<>> => IsPrefix(OpsOf(log), BatchOps(Rows))
      /\ pc = "done" =>
           /\ OpsOf(log) = BatchOps(Rows)
           /\ Len(registered_accounts) = Rows
           /\ \A a \in 0..(Rows - 1) :
                /\ registered_accounts[a + 1].acct = a
                /\ CountOf("create", a, "True") = 1
                /\ CountOf("start", a, "True") = 1
                /\ CountOf("stop", a, "True") = 1
                /\ CountOf("delete", a, "True") = 1

C1_Witness ==
    /\ pc = "done"
    /\ AllSuccess
    /\ Rows >= 2
    /\ Len(registered_accounts) = Rows

FatalOps == {"create", "start", "wallet", "account"}

(* C2: a False outcome of create, start, wallet or account registration   *)
(* is the last call of the run: the script has exited, and no record of   *)
(* that account or of a later one exists.                                 *)
C2_FalseOutcomeEndsBatch ==
    \A k \in DOMAIN log :
      (log[k].op \in FatalOps /\ log[k].res = "False") =>
        /\ k = Len(log)
        /\ pc = "exited"
        /\ \A r \in DOMAIN registered_accounts :
             registered_accounts[r].acct < log[k].acct

C2_Witness ==
    /\ pc = "exited"
    /\ log # <<>>
    /\ log[Len(log)].op \in FatalOps
    /\ log[Len(log)].res = "False"
    /\ log[Len(log)].acct >= 1
    /\ registered_accounts # <<>>

NonEmptyText(t) == t # "" /\ t # None

(* C3: every record has a non-empty username, email, password, public     *)
(* address and recovery phrase; there is at most one record per account,  *)
(* exactly one once the account's registration has returned and been      *)
(* recorded, and none without both workflows having succeeded.            *)
C3_RecordsComplete ==
    /\ \A r \in DOMAIN registered_accounts :
         LET rec == registered_accounts[r]
         IN  /\ NonEmptyText(rec.username)
             /\ rec.email # <<>>
             /\ NonEmptyText(rec.password)
             /\ NonEmptyText(rec.public_key)
             /\ rec.seed_phrase # <<>>
             /\ CountOf("wallet", rec.acct, "True") = 1
             /\ CountOf("account", rec.acct, "True") = 1
    /\ \A r1, r2 \in DOMAIN registered_accounts :
         registered_accounts[r1].acct = registered_accounts[r2].acct => r1 = r2
    /\ \A k \in DOMAIN log :
         (log[k].op = "record") =>
           \E r \in DOMAIN registered_accounts :
             registered_accounts[r].acct = log[k].acct

PublicOps == {"authorise_account", "create_new_profile", "start_profile",
              "stop_profile", "delete_profile", "register_metamask",
              "register_sandbox_account"}

PublicCalls == {"auth", "create", "start", "stop", "delete", "wallet", "account"}

(* C4: no public operation lets an exception reach its caller, and every  *)
(* outcome a public operation hands back is True or False.                *)
C4_FailuresAreBooleans ==
    /\ raisedBy \notin PublicOps
    /\ \A k \in DOMAIN log :
         log[k].op \in PublicCalls => log[k].res \in {"True", "False"}

(* C5: when the three lists are not of one length, no call is ever made   *)
(* and no record is ever appended: the script exits at the length test.   *)
C5_LengthMismatchAborts ==
    ~ListsAligned =>
      /\ log = <<>>
      /\ registered_accounts = <<>>
      /\ authorization_token = None
      /\ pc \in {"check_lengths", "exited"}

C5_Witness ==
    /\ ~ListsAligned
    /\ pc = "exited"

(* C6: an authentication response without a token is the only call of the *)
(* run: the script has exited, the token is unset, no profile is created. *)
C6_NoTokenAborts ==
    \A k \in DOMAIN log :
      (log[k].op = "auth" /\ log[k].resp = "nokey") =>
        /\ Len(log) = 1
        /\ authorization_token = None
        /\ pc = "exited"

C6_Witness ==
    /\ log # <<>>
    /\ log[1].op = "auth"
    /\ log[1].resp = "nokey"
    /\ Rows >= 1
    /\ pc = "exited"

(* C7: a start that did not succeed is the last call of the run, so no    *)
(* attach follows it, and the run has ended; every attach is preceded by  *)
(* a successful start of the same account and goes to the port that start *)
(* supplied.                                                              *)
C7_AttachOnlyAfterStart ==
    /\ \A k \in DOMAIN log :
         (log[k].op = "start" /\ log[k].res # "True") =>
           /\ k = Len(log)
           /\ pc \in {"exited", "crashed"}
    /\ \A k \in DOMAIN log :
         (log[k].op = "attach") =>
           /\ log[k].resp \in Ports
           /\ \E j \in 1..(k - 1) :
                /\ log[j].op = "start"
                /\ log[j].acct = log[k].acct
                /\ log[j].res = "True"

C7_Witness ==
    /\ log # <<>>
    /\ log[Len(log)].op = "start"
    /\ log[Len(log)].res = "False"
    /\ \E k \in DOMAIN log : log[k].op = "attach"
    /\ pc = "exited"

(* C8: a stop or delete that did not succeed does not end the batch: after *)
(* a failed stop the script goes on to delete, after a failed delete to   *)
(* the next row, and the account's record is still there.                 *)
C8_CleanupFailureNonFatal ==
    \A k \in DOMAIN log :
      (log[k].op \in {"stop", "delete"} /\ log[k].res # "True") =>
        /\ pc \notin {"exited", "crashed"}
        /\ \E r \in DOMAIN registered_accounts :
             registered_accounts[r].acct = log[k].acct
        /\ (k = Len(log) /\ log[k].op = "stop") => pc = "delete"
        /\ (k = Len(log) /\ log[k].op = "delete") =>
             (pc = "loop" /\ i = log[k].acct + 1)
        /\ (k < Len(log) /\ log[k].op = "stop") =>
             (log[k + 1].op = "delete" /\ log[k + 1].acct = log[k].acct)

(* C9: when the avatar steps of the account just registered failed, the   *)
(* registration still returned True, the script goes on to append, and    *)
(* from the append on the account's record is in the file.                *)
C9_AvatarFailureStillRecorded ==
    (avatar_updated = "False" /\ log # <<>>) =>
      LET last == log[Len(log)]
      IN  /\ (last.op = "account" /\ last.resp = "returned") =>
               /\ last.res = "True"
               /\ sandbox_registered = "True"
               /\ pc = "append"
          /\ (last.op = "record") =>
               /\ pc = "stop"
               /\ registered_accounts[Len(registered_accounts)].acct = last.acct

C9_Witness ==
    /\ avatar_updated = "False"
    /\ pc = "stop"
    /\ registered_accounts # <<>>
    /\ registered_accounts[Len(registered_accounts)].acct = i

InFormLoop == pc \in {"form_generate", "form_submit"}

(* C10: inside the form loop every attempt starts by generating a         *)
(* username and a password; a submitted attempt either leaves the loop    *)
(* for the password page or, having failed, goes back to generating, at   *)
(* any count of earlier failures; while the loop runs nothing is          *)
(* recorded, no call is made, and the profile has been neither stopped    *)
(* nor deleted.                                                           *)
C10_FormLoopUnbounded ==
    [][ /\ (pc = "form_generate") =>
             /\ pc' = "form_submit"
             /\ sandbox_account'.username \in Usernames
             /\ sandbox_account'.password \in Passwords
        /\ (pc = "form_submit") =>
             \/ pc' = "set_password" /\ attempts' = attempts
             \/ /\ pc' = "form_generate"
                /\ attempts' = Min(attempts + 1, MaxAttempts)
        /\ InFormLoop =>
             /\ registered_accounts' = registered_accounts
             /\ log' = log
             /\ \A k \in DOMAIN log :
                  log[k].acct = i => log[k].op \notin {"record", "stop", "delete"}
             /\ \A r \in DOMAIN registered_accounts :
                  registered_accounts[r].acct # i
      ]_vars

C10_Witness ==
    /\ pc = "form_generate"
    /\ attempts = MaxAttempts
    /\ sandbox_account.username \in Usernames
    /\ i >= 1

AbortingOps == {"start", "wallet", "account"}

(* C11: when start, wallet registration or account registration of an     *)
(* account did not succeed, that call is the last of the run, the script  *)
(* has ended, the account's profile had been created, and no stop and no  *)
(* delete request was made for it; the script still holds the profile id, *)
(* and the port of the browser when the start had succeeded.              *)
C11_AbortLeavesProfileOrphaned ==
    \A k \in DOMAIN log :
      (log[k].op \in AbortingOps /\ log[k].res # "True") =>
        /\ k = Len(log)
        /\ pc \in {"exited", "crashed"}
        /\ i = log[k].acct
        /\ CountOf("create", log[k].acct, "True") = 1
        /\ dolphin_profile.browser_profile_id \in ProfileIds
        /\ \A j \in DOMAIN log :
             log[j].acct = log[k].acct => log[j].op \notin {"stop", "delete"}
        /\ (log[k].op # "start") =>
             /\ CountOf("start", log[k].acct, "True") = 1
             /\ dolphin_profile.window_port \in Ports

C11_Witness ==
    /\ pc = "exited"
    /\ log # <<>>
    /\ log[Len(log)].op = "wallet"
    /\ log[Len(log)].res = "False"
    /\ log[Len(log)].acct >= 1
    /\ CountOf("start", log[Len(log)].acct, "True") = 1
    /\ \E j \in DOMAIN log : log[j].op = "delete" /\ log[j].acct = 0

=============================================================================
